---- MODULE Spec2Model ----
(***************************************************************************)
(* Model of dashboard_iot.py: the MQTT telemetry bridge of the dashboard.   *)
(*                                                                         *)
(* The planes share the module's variables:                                *)
(*   Spec      the store plane: on_message on the transport's network      *)
(*             thread(s), the snapshot and the history reset of            *)
(*             build_dashboard, the CSV log;                               *)
(*   SpecLock  the threads of the store plane under fair scheduling;       *)
(*   SpecNorm  one network thread, every shape of JSON object, time;       *)
(*   SpecConn  the connection plane: start_mqtt_once, the reconnect        *)
(*             worker, on_connect / on_disconnect (LiveConn adds the       *)
(*             fairness of the threads);                                   *)
(*   SpecPub   the connection plane of one caller with the command         *)
(*             publisher of the bridge's contract.                         *)
(***************************************************************************)
EXTENDS Integers, Sequences, FiniteSets, TLC

(***************************************************************************)
(* Bounds of the model.                                                    *)
(***************************************************************************)
\* messages the broker delivers in one run
MaxMsgs == 3
\* capacity of data_history: the program keeps 300 points (lines 168-169);
\* the model keeps the same code with a small capacity so that eviction happens
HistoryCap == 2

(***************************************************************************)
(* Python / JSON values.  One shape for every value so that any two can be *)
(* compared: t is the type, n the number (floats in tenths, booleans 0/1,  *)
(* lists their length), s the characters of a string.                      *)
(***************************************************************************)
Null == [t |-> "null", n |-> 0, s |-> <<>>]
IntV(i) == [t |-> "int", n |-> i, s |-> <<>>]
FloatV(tenths) == [t |-> "float", n |-> tenths, s |-> <<>>]
BoolV(b) == [t |-> "bool", n |-> IF b THEN 1 ELSE 0, s |-> <<>>]
StrV(chars) == [t |-> "str", n |-> 0, s |-> chars]
ListV(len) == [t |-> "list", n |-> len, s |-> <<>>]

Digits == {"0", "1", "2", "3", "4", "5", "6", "7", "8", "9"}

DigitVal(c) ==
    CASE c = "0" -> 0 [] c = "1" -> 1 [] c = "2" -> 2 [] c = "3" -> 3
      [] c = "4" -> 4 [] c = "5" -> 5 [] c = "6" -> 6 [] c = "7" -> 7
      [] c = "8" -> 8 [] c = "9" -> 9

AllDigits(s) == \A i \in 1..Len(s) : s[i] \in Digits

RECURSIVE DigitsVal(_)
DigitsVal(s) ==
    IF s = <<>> THEN 0
    ELSE 10 * DigitsVal(SubSeq(s, 1, Len(s) - 1)) + DigitVal(s[Len(s)])

HasSign(s) == Len(s) > 0 /\ s[1] \in {"+", "-"}
Unsigned(s) == IF HasSign(s) THEN Tail(s) ELSE s
Signed(s, v) == IF HasSign(s) /\ s[1] = "-" THEN 0 - v ELSE v

\* the strings int() accepts: an optional sign and one or more digits
IsIntLit(s) == Len(Unsigned(s)) > 0 /\ AllDigits(Unsigned(s))

DotAt(s) == {i \in 1..Len(s) : s[i] = "."}

\* the strings float() accepts, among those of the model (at most one digit
\* after the point, so that the value is a whole number of tenths)
IsFloatLit(s) ==
    LET u == Unsigned(s) IN
    \/ IsIntLit(s)
    \/ /\ Cardinality(DotAt(u)) = 1
       /\ LET d == CHOOSE i \in DotAt(u) : TRUE
              ip == SubSeq(u, 1, d - 1)
              fp == SubSeq(u, d + 1, Len(u))
          IN /\ AllDigits(ip) /\ AllDigits(fp)
             /\ Len(ip) + Len(fp) > 0
             /\ Len(fp) <= 1

FloatLitTenths(s) ==
    LET u == Unsigned(s) IN
    IF IsIntLit(s) THEN Signed(s, 10 * DigitsVal(u))
    ELSE LET d == CHOOSE i \in DotAt(u) : TRUE
             ip == SubSeq(u, 1, d - 1)
             fp == SubSeq(u, d + 1, Len(u))
         IN Signed(s, 10 * DigitsVal(ip) + DigitsVal(fp))

\* truncation toward zero of a number of tenths: int(23.6) = 23, int(-0.5) = 0
Trunc(tenths) == IF tenths >= 0 THEN tenths \div 10 ELSE 0 - ((0 - tenths) \div 10)

\* _to_float, lines 71-77: None stays None, float(x), any exception gives None
_to_float(x) ==
    CASE x.t = "null" -> Null
      [] x.t = "bool" -> FloatV(10 * x.n)
      [] x.t = "int" -> FloatV(10 * x.n)
      [] x.t = "float" -> x
      [] x.t = "str" -> IF IsFloatLit(x.s) THEN FloatV(FloatLitTenths(x.s)) ELSE Null
      [] OTHER -> Null

\* _to_int, lines 79-85: None stays None, int(x), any exception gives None
_to_int(x) ==
    CASE x.t = "null" -> Null
      [] x.t = "bool" -> IntV(x.n)
      [] x.t = "int" -> x
      [] x.t = "float" -> IntV(Trunc(x.n))
      [] x.t = "str" -> IF IsIntLit(x.s) THEN IntV(Signed(x.s, DigitsVal(Unsigned(x.s)))) ELSE Null
      [] OTHER -> Null

\* bool(x) if x is not None else None, lines 147-149
BoolOrNone(x) ==
    CASE x.t = "null" -> Null
      [] x.t \in {"bool", "int", "float", "list"} -> BoolV(x.n # 0)
      [] x.t = "str" -> BoolV(Len(x.s) > 0)
      [] OTHER -> BoolV(TRUE)

\* faulty variant: payload.get(k, 0), a placeholder for an absent key
GetZero(p, k) == IF k \in DOMAIN p THEN p[k] ELSE IntV(0)

\* payload.get(k) and payload.get(k, default) of a decoded JSON object
Get(p, k) == IF k \in DOMAIN p THEN p[k] ELSE Null
GetDefault(p, k, dflt) == IF k \in DOMAIN p THEN p[k] ELSE dflt

(***************************************************************************)
(* Inbound messages.  msg.payload is either text json.loads rejects        *)
(* ("garbage"), the text of a JSON value that is no object ("value"), or   *)
(* the text of a JSON object ("object", obj maps its keys to values).      *)
(***************************************************************************)
Garbage == [kind |-> "garbage", val |-> Null, obj |-> [none |-> Null]]
ValueMsg(v) == [kind |-> "value", val |-> v, obj |-> [none |-> Null]]
ObjectMsg(o) == [kind |-> "object", val |-> Null, obj |-> o]

\* {"temperature":23.6,"humidity":41,"seuil":30.9,"flame":0}
ObjA == [temperature |-> FloatV(236), humidity |-> IntV(41),
         seuil |-> FloatV(309), flame |-> IntV(0)]
\* {"temperature":"19.5","humidite":55,"flame":1,"pot":512,"alarm":true,"tempSeuil":30}
ObjB == [temperature |-> StrV(<<"1", "9", ".", "5">>), humidite |-> IntV(55),
         flame |-> IntV(1), pot |-> IntV(512), alarm |-> BoolV(TRUE),
         tempSeuil |-> IntV(30)]

Messages == {Garbage, ValueMsg(Null), ValueMsg(ListV(1)), ObjectMsg(ObjA), ObjectMsg(ObjB)}

\* faulty variant: json.loads rejects nothing
DecodeNeverFails(m) == FALSE

\* json.loads(raw) raises, lines 114-120
DecodeFails(m) == m.kind = "garbage"
\* payload.get raises AttributeError on anything but a dict, line 126
GetRaises(m) == m.kind = "value"

(***************************************************************************)
(* The store: last_data (lines 47-64) and data_history (line 66).          *)
(***************************************************************************)
NoTime == 0

EmptyData ==
    [temperature |-> Null, humidity |-> Null, tempSeuil |-> Null, humSeuil |-> Null,
     flame |-> Null, flameRaw |-> Null, pot |-> Null, seuilPot |-> Null,
     alarm |-> Null, alarmTemp |-> Null, alarmFlame |-> Null, alarmLocal |-> Null,
     muted |-> Null, motorForced |-> Null, motorSpeed |-> Null, last_update |-> NoTime]

\* what lines 126-156 store for the decoded object p received at time now
Normalize(p, now) ==
    [temperature |-> _to_float(Get(p, "temperature")),
     humidity    |-> _to_float(GetDefault(p, "humidity", Get(p, "humidite"))),
     tempSeuil   |-> _to_float(Get(p, "tempSeuil")),
     humSeuil    |-> _to_float(Get(p, "humSeuil")),
     flame       |-> _to_int(Get(p, "flame")),
     flameRaw    |-> _to_int(Get(p, "flameRaw")),
     pot         |-> _to_int(Get(p, "pot")),
     seuilPot    |-> _to_float(GetDefault(p, "seuilPot",
                                  GetDefault(p, "seuil", Get(p, "tempSeuil")))),
     alarm       |-> BoolOrNone(Get(p, "alarm")),
     alarmTemp   |-> BoolOrNone(Get(p, "alarmTemp")),
     alarmFlame  |-> BoolOrNone(Get(p, "alarmFlame")),
     alarmLocal  |-> Get(p, "alarmLocal"),
     muted       |-> Get(p, "muted"),
     motorForced |-> Get(p, "motorForced"),
     motorSpeed  |-> Get(p, "motorSpeed"),
     last_update |-> now]

\* the history point of lines 159-165, built from last_data
HistoryEntry(d, now) ==
    [time |-> now, temperature |-> d.temperature, humidity |-> d.humidity,
     flame |-> d.flame, pot |-> d.pot]

\* faulty variant: data_history[:n], the oldest points are kept
FirstN(h, n) == IF Len(h) > n THEN SubSeq(h, 1, n) ELSE h

\* data_history[-n:]
LastN(h, n) == IF Len(h) > n THEN SubSeq(h, Len(h) - n + 1, Len(h)) ELSE h

CsvHeader == [time |-> NoTime, temperature |-> Null, humidity |-> Null,
              flame |-> Null, pot |-> Null]

(***************************************************************************)
(* Threads.  Every foreground caller (a run of main) may create one MQTT   *)
(* client and one worker, so callers, clients and workers share their ids. *)
(***************************************************************************)
Callers == {1, 2}
Clients == Callers
NoClient == 0

Free == <<"free", 0>>
Net(c) == <<"net", c>>
Fg(f) == <<"fg", f>>

NoMsg == [kind |-> "none", val |-> Null, obj |-> [none |-> Null]]

VARIABLES
    \* ---- module globals of the program
    mqtt_started,     \* line 44
    mqtt_client,      \* line 42: the client the global names, NoClient for None
    mqtt_thread,      \* line 43: the worker the global names, 0 for None
    mqtt_connected,   \* line 45
    last_data,        \* lines 47-64
    data_history,     \* line 66
    lock,             \* LOCK, line 40: Free or the thread holding it
    csv,              \* the lines of CSV_FILE
    \* ---- the transport, one entry per client object
    sock,             \* "closed", "handshake" (CONNECT sent) or "established"
    loop,             \* the client's network thread: "none", "running", "dead"
    subscribed,       \* a subscribe to TOPIC_DATA was issued on the session
    \* ---- on_message on a client's network thread
    nt_pc, nt_msg, nt_now,
    \* ---- the reconnect worker threads
    w_pc,
    \* ---- foreground callers
    fg_pc, fg_d, fg_hist, fg_ret,
    \* ---- environment and bookkeeping
    addr_valid,       \* MQTT_BROKER is a well-formed address
    clock,            \* datetime.now()
    delivered,        \* messages delivered so far
    drops,            \* messages dropped at lines 118-120
    stamps,           \* stamps[t]: the object received at time t
    applied,          \* history points appended so far, in order
    reset_mark,       \* Len(applied) at the last history reset
    clients_made,     \* mqtt.Client() objects created
    workers_made,     \* worker threads started
    conn_failed,      \* a connect call has raised
    last_print,       \* the last line printed by the connection code
    lost,             \* on_disconnect ended a Connected state, not Connected since
    \* ---- the command publisher
    wire,             \* the commands handed to the transport, in order
    pub_ret,          \* what each caller's last Publish returned
    refused,          \* the publish calls that returned an error
    pubs              \* publish calls made so far

store_vars == <<last_data, data_history, lock, csv, nt_pc, nt_msg, nt_now,
                fg_d, fg_hist, clock, delivered, drops, stamps, applied, reset_mark>>
conn_vars == <<mqtt_started, mqtt_client, mqtt_thread, mqtt_connected, sock,
               subscribed, w_pc, fg_ret, addr_valid, clients_made, workers_made,
               conn_failed, last_print, lost, wire, pub_ret, refused, pubs>>
vars == <<store_vars, conn_vars, loop, fg_pc>>

\* the header of a state: nothing received, nothing started
InitStore ==
    /\ last_data = EmptyData
    /\ data_history = <<>>
    /\ lock = Free
    /\ csv = <<>>
    /\ nt_pc = [c \in Clients |-> "idle"]
    /\ nt_msg = [c \in Clients |-> NoMsg]
    /\ nt_now = [c \in Clients |-> NoTime]
    /\ fg_d = [f \in Callers |-> EmptyData]
    /\ fg_hist = [f \in Callers |-> <<>>]
    /\ clock = 0
    /\ delivered = 0
    /\ drops = 0
    /\ stamps = <<>>
    /\ applied = <<>>
    /\ reset_mark = 0
    /\ wire = <<>>
    /\ pub_ret = [f \in Callers |-> "none"]
    /\ refused = {}
    /\ pubs = 0

(***************************************************************************)
(* on_message, lines 111-183, on the network thread of client c.           *)
(***************************************************************************)
\* releasing LOCK at the end of a with block
Release(who) == IF lock = who THEN Free ELSE lock

\* the transport hands a received message to on_message
Deliver(c, m) ==
    /\ loop[c] = "running" /\ sock[c] = "established" /\ subscribed[c]
    /\ nt_pc[c] = "idle"
    /\ delivered < MaxMsgs
    /\ delivered' = delivered + 1
    /\ nt_msg' = [nt_msg EXCEPT ![c] = m]
    /\ nt_pc' = [nt_pc EXCEPT ![c] = "decode"]
    /\ UNCHANGED <<last_data, data_history, lock, csv, nt_now, fg_d, fg_hist,
                   clock, drops, stamps, applied, reset_mark>>
    /\ UNCHANGED <<conn_vars, loop, fg_pc>>

\* lines 114-132: decode, on an exception print and return (the message is
\* dropped); then now = datetime.now() and the payload.get calls, outside any
\* try: on a payload that is no dict the AttributeError leaves on_message and
\* ends the network thread that called it
OnMessageDecode(c) ==
    /\ nt_pc[c] = "decode"
    /\ IF DecodeFails(nt_msg[c])
       THEN /\ nt_pc' = [nt_pc EXCEPT ![c] = "idle"]
            /\ nt_msg' = [nt_msg EXCEPT ![c] = NoMsg]
            /\ drops' = drops + 1
            /\ UNCHANGED <<loop, clock, nt_now, stamps>>
       ELSE IF GetRaises(nt_msg[c])
       THEN /\ loop' = [loop EXCEPT ![c] = "dead"]
            /\ nt_pc' = [nt_pc EXCEPT ![c] = "idle"]
            /\ nt_msg' = [nt_msg EXCEPT ![c] = NoMsg]
            /\ UNCHANGED <<clock, nt_now, stamps, drops>>
       ELSE /\ clock' = clock + 1
            /\ nt_now' = [nt_now EXCEPT ![c] = clock + 1]
            /\ stamps' = Append(stamps, nt_msg[c].obj)
            /\ nt_pc' = [nt_pc EXCEPT ![c] = "lock"]
            /\ UNCHANGED <<loop, nt_msg, drops>>
    /\ UNCHANGED <<last_data, data_history, lock, csv, fg_d, fg_hist,
                   delivered, applied, reset_mark>>
    /\ UNCHANGED <<conn_vars, fg_pc>>

\* faulty variant: the with block ends after the sensor fields
OnMessageLockEarlyRelease(c) ==
    /\ nt_pc[c] = "lock"
    /\ lock = Free
    /\ lock' = Free
    /\ LET r == Normalize(nt_msg[c].obj, nt_now[c]) IN
       last_data' = [last_data EXCEPT
                        !.temperature = r.temperature, !.humidity = r.humidity,
                        !.tempSeuil = r.tempSeuil, !.humSeuil = r.humSeuil,
                        !.flame = r.flame, !.flameRaw = r.flameRaw,
                        !.pot = r.pot, !.seuilPot = r.seuilPot]
    /\ nt_pc' = [nt_pc EXCEPT ![c] = "write"]
    /\ UNCHANGED <<data_history, csv, nt_msg, nt_now, fg_d, fg_hist,
                   clock, delivered, drops, stamps, applied, reset_mark>>
    /\ UNCHANGED <<conn_vars, loop, fg_pc>>

\* lines 134-145: with LOCK, then the sensor fields
OnMessageLock(c) ==
    /\ nt_pc[c] = "lock"
    /\ lock = Free
    /\ lock' = Net(c)
    /\ LET r == Normalize(nt_msg[c].obj, nt_now[c]) IN
       last_data' = [last_data EXCEPT
                        !.temperature = r.temperature, !.humidity = r.humidity,
                        !.tempSeuil = r.tempSeuil, !.humSeuil = r.humSeuil,
                        !.flame = r.flame, !.flameRaw = r.flameRaw,
                        !.pot = r.pot, !.seuilPot = r.seuilPot]
    /\ nt_pc' = [nt_pc EXCEPT ![c] = "write"]
    /\ UNCHANGED <<data_history, csv, nt_msg, nt_now, fg_d, fg_hist,
                   clock, delivered, drops, stamps, applied, reset_mark>>
    /\ UNCHANGED <<conn_vars, loop, fg_pc>>

\* faulty variant: last_update is not written
OnMessageWriteNoStamp(c) ==
    /\ nt_pc[c] = "write"
    /\ LET r == Normalize(nt_msg[c].obj, nt_now[c])
           d == [last_data EXCEPT
                        !.alarm = r.alarm, !.alarmTemp = r.alarmTemp,
                        !.alarmFlame = r.alarmFlame, !.alarmLocal = r.alarmLocal,
                        !.muted = r.muted, !.motorForced = r.motorForced,
                        !.motorSpeed = r.motorSpeed]
           e == HistoryEntry(d, nt_now[c])
       IN /\ last_data' = d
          /\ data_history' = Append(data_history, e)
          /\ applied' = Append(applied, e)
    /\ nt_pc' = [nt_pc EXCEPT ![c] = "trim"]
    /\ UNCHANGED <<lock, csv, nt_msg, nt_now, fg_d, fg_hist,
                   clock, delivered, drops, stamps, reset_mark>>
    /\ UNCHANGED <<conn_vars, loop, fg_pc>>

\* lines 147-165: the alarm and actuator fields, last_update, then
\* data_history.append of a point built from last_data
OnMessageWrite(c) ==
    /\ nt_pc[c] = "write"
    /\ LET r == Normalize(nt_msg[c].obj, nt_now[c])
           d == [last_data EXCEPT
                        !.alarm = r.alarm, !.alarmTemp = r.alarmTemp,
                        !.alarmFlame = r.alarmFlame, !.alarmLocal = r.alarmLocal,
                        !.muted = r.muted, !.motorForced = r.motorForced,
                        !.motorSpeed = r.motorSpeed, !.last_update = r.last_update]
           e == HistoryEntry(d, nt_now[c])
       IN /\ last_data' = d
          /\ data_history' = Append(data_history, e)
          /\ applied' = Append(applied, e)
    /\ nt_pc' = [nt_pc EXCEPT ![c] = "trim"]
    /\ UNCHANGED <<lock, csv, nt_msg, nt_now, fg_d, fg_hist,
                   clock, delivered, drops, stamps, reset_mark>>
    /\ UNCHANGED <<conn_vars, loop, fg_pc>>

\* faulty variant: the with block extends over the CSV write
OnMessageTrimKeepsLock(c) ==
    /\ nt_pc[c] = "trim"
    /\ data_history' = IF Len(data_history) > HistoryCap
                       THEN LastN(data_history, HistoryCap)
                       ELSE data_history
    /\ nt_pc' = [nt_pc EXCEPT ![c] = "csv"]
    /\ UNCHANGED <<last_data, lock, csv, nt_msg, nt_now, fg_d, fg_hist,
                   clock, delivered, drops, stamps, applied, reset_mark>>
    /\ UNCHANGED <<conn_vars, loop, fg_pc>>

\* lines 168-169, and the end of the with block
OnMessageTrim(c) ==
    /\ nt_pc[c] = "trim"
    /\ data_history' = IF Len(data_history) > HistoryCap
                       THEN LastN(data_history, HistoryCap)
                       ELSE data_history
    /\ lock' = Release(Net(c))
    /\ nt_pc' = [nt_pc EXCEPT ![c] = "csv"]
    /\ UNCHANGED <<last_data, csv, nt_msg, nt_now, fg_d, fg_hist,
                   clock, delivered, drops, stamps, applied, reset_mark>>
    /\ UNCHANGED <<conn_vars, loop, fg_pc>>

\* lines 172-181: ensure_csv_header and the CSV row, built from last_data after
\* LOCK is released.  (An I/O error is caught and printed, lines 182-183; the
\* model follows the writes that succeed.)
OnMessageCsv(c) ==
    /\ nt_pc[c] = "csv"
    /\ csv' = Append(IF csv = <<>> THEN <<CsvHeader>> ELSE csv,
                     HistoryEntry(last_data, nt_now[c]))
    /\ nt_pc' = [nt_pc EXCEPT ![c] = "idle"]
    /\ nt_msg' = [nt_msg EXCEPT ![c] = NoMsg]
    /\ nt_now' = [nt_now EXCEPT ![c] = NoTime]
    /\ UNCHANGED <<last_data, data_history, lock, fg_d, fg_hist,
                   clock, delivered, drops, stamps, applied, reset_mark>>
    /\ UNCHANGED <<conn_vars, loop, fg_pc>>

(***************************************************************************)
(* build_dashboard on a foreground caller f: the snapshot of lines 277-280 *)
(* and the history reset of lines 436-439.                                 *)
(***************************************************************************)
\* faulty variant: the copy is taken without LOCK
SnapCopyDataNoLock(f) ==
    /\ fg_pc[f] = "idle"
    /\ fg_d' = [fg_d EXCEPT ![f] = last_data]
    /\ fg_pc' = [fg_pc EXCEPT ![f] = "copy_h"]
    /\ UNCHANGED <<last_data, data_history, lock, csv, nt_pc, nt_msg, nt_now,
                   fg_hist, clock, delivered, drops, stamps, applied, reset_mark>>
    /\ UNCHANGED <<conn_vars, loop>>

\* lines 278-279: with LOCK, d = dict(last_data)
SnapCopyData(f) ==
    /\ fg_pc[f] = "idle"
    /\ lock = Free
    /\ lock' = Fg(f)
    /\ fg_d' = [fg_d EXCEPT ![f] = last_data]
    /\ fg_pc' = [fg_pc EXCEPT ![f] = "copy_h"]
    /\ UNCHANGED <<last_data, data_history, csv, nt_pc, nt_msg, nt_now,
                   fg_hist, clock, delivered, drops, stamps, applied, reset_mark>>
    /\ UNCHANGED <<conn_vars, loop>>

\* line 280: hist_copy = list(data_history), and the end of the with block
SnapCopyHistory(f) ==
    /\ fg_pc[f] = "copy_h"
    /\ fg_hist' = [fg_hist EXCEPT ![f] = data_history]
    /\ lock' = Release(Fg(f))
    /\ fg_pc' = [fg_pc EXCEPT ![f] = "render"]
    /\ UNCHANGED <<last_data, data_history, csv, nt_pc, nt_msg, nt_now, fg_d,
                   clock, delivered, drops, stamps, applied, reset_mark>>
    /\ UNCHANGED <<conn_vars, loop>>

\* lines 282-455 with the reset button not pressed: the run ends
RenderDone(f) ==
    /\ fg_pc[f] = "render"
    /\ fg_pc' = [fg_pc EXCEPT ![f] = "idle"]
    /\ fg_d' = [fg_d EXCEPT ![f] = EmptyData]
    /\ fg_hist' = [fg_hist EXCEPT ![f] = <<>>]
    /\ UNCHANGED <<last_data, data_history, lock, csv, nt_pc, nt_msg, nt_now,
                   clock, delivered, drops, stamps, applied, reset_mark>>
    /\ UNCHANGED <<conn_vars, loop>>

\* lines 436-437: the reset button is pressed, with LOCK
ResetAcquire(f) ==
    /\ fg_pc[f] = "render"
    /\ lock = Free
    /\ lock' = Fg(f)
    /\ fg_pc' = [fg_pc EXCEPT ![f] = "clear"]
    /\ fg_d' = [fg_d EXCEPT ![f] = EmptyData]
    /\ fg_hist' = [fg_hist EXCEPT ![f] = <<>>]
    /\ UNCHANGED <<last_data, data_history, csv, nt_pc, nt_msg, nt_now,
                   clock, delivered, drops, stamps, applied, reset_mark>>
    /\ UNCHANGED <<conn_vars, loop>>

\* faulty variant: the reset also wipes last_data
ResetClearsLatest(f) ==
    /\ fg_pc[f] = "clear"
    /\ data_history' = <<>>
    /\ last_data' = EmptyData
    /\ reset_mark' = Len(applied)
    /\ lock' = Release(Fg(f))
    /\ fg_pc' = [fg_pc EXCEPT ![f] = "idle"]
    /\ UNCHANGED <<csv, nt_pc, nt_msg, nt_now, fg_d, fg_hist,
                   clock, delivered, drops, stamps, applied>>
    /\ UNCHANGED <<conn_vars, loop>>

\* line 438: data_history.clear(), and the end of the with block
ResetClear(f) ==
    /\ fg_pc[f] = "clear"
    /\ data_history' = <<>>
    /\ reset_mark' = Len(applied)
    /\ lock' = Release(Fg(f))
    /\ fg_pc' = [fg_pc EXCEPT ![f] = "idle"]
    /\ UNCHANGED <<last_data, csv, nt_pc, nt_msg, nt_now, fg_d, fg_hist,
                   clock, delivered, drops, stamps, applied>>
    /\ UNCHANGED <<conn_vars, loop>>

(***************************************************************************)
(* The store plane: the bridge is started and its client sessions are up.  *)
(* live are the clients that exist (one normally, two after two callers    *)
(* raced through start_mqtt_once, see SpecConn); view are the callers      *)
(* whose dashboard is open ("off": no run of build_dashboard).  The plane  *)
(* follows three threads at a time: one network thread and two dashboards, *)
(* or two network threads and one dashboard.                               *)
(***************************************************************************)
StoreSetups == {[live |-> {1}, view |-> {1, 2}], [live |-> {1, 2}, view |-> {1}]}

InitConnected(live, view) ==
    /\ mqtt_started = TRUE
    /\ mqtt_client = CHOOSE c \in live : \A d \in live : d <= c
    /\ mqtt_thread = mqtt_client
    /\ mqtt_connected = TRUE
    /\ sock = [c \in Clients |-> IF c \in live THEN "established" ELSE "closed"]
    /\ loop = [c \in Clients |-> IF c \in live THEN "running" ELSE "none"]
    /\ subscribed = [c \in Clients |-> c \in live]
    /\ w_pc = [w \in Callers |-> IF w \in live THEN "sleep" ELSE "none"]
    /\ fg_pc = [f \in Callers |-> IF f \in view THEN "idle" ELSE "off"]
    /\ fg_ret = [f \in Callers |-> IF f \in live THEN "ok" ELSE "none"]
    /\ addr_valid = TRUE
    /\ clients_made = Cardinality(live)
    /\ workers_made = Cardinality(live)
    /\ conn_failed = FALSE
    /\ last_print = <<"connected", 0>>
    /\ lost = FALSE

Init ==
    /\ InitStore
    /\ \E su \in StoreSetups : InitConnected(su.live, su.view)

Next ==
    \/ \E c \in Clients, m \in Messages : Deliver(c, m)
    \/ \E c \in Clients : OnMessageDecode(c)
    \/ \E c \in Clients : OnMessageLock(c)
    \/ \E c \in Clients : OnMessageWrite(c)
    \/ \E c \in Clients : OnMessageTrim(c)
    \/ \E c \in Clients : OnMessageCsv(c)
    \/ \E f \in Callers : SnapCopyData(f)
    \/ \E f \in Callers : SnapCopyHistory(f)
    \/ \E f \in Callers : RenderDone(f)
    \/ \E f \in Callers : ResetAcquire(f)
    \/ \E f \in Callers : ResetClear(f)

Spec == Init /\ [][Next]_vars

(***************************************************************************)
(* The lock plane: the threads of the store plane with the three kinds of  *)
(* message (what a message carries does not matter to LOCK), scheduled     *)
(* fairly: a thread that can step does, and a thread waiting for LOCK gets *)
(* it if LOCK is free again and again.  The dashboard is re-run for ever   *)
(* (st_autorefresh, line 231); nobody has to press the reset button.       *)
(***************************************************************************)
LockMessages == {Garbage, ValueMsg(Null), ObjectMsg(ObjA)}

NextLock ==
    \/ \E c \in Clients, m \in LockMessages : Deliver(c, m)
    \/ \E c \in Clients : OnMessageDecode(c)
    \/ \E c \in Clients : OnMessageLock(c)
    \/ \E c \in Clients : OnMessageWrite(c)
    \/ \E c \in Clients : OnMessageTrim(c)
    \/ \E c \in Clients : OnMessageCsv(c)
    \/ \E f \in Callers : SnapCopyData(f)
    \/ \E f \in Callers : SnapCopyHistory(f)
    \/ \E f \in Callers : RenderDone(f)
    \/ \E f \in Callers : ResetAcquire(f)
    \/ \E f \in Callers : ResetClear(f)

LockFair ==
    /\ \A c \in Clients :
          /\ WF_vars(OnMessageDecode(c) \/ OnMessageWrite(c) \/ OnMessageTrim(c)
                         \/ OnMessageCsv(c))
          /\ SF_vars(OnMessageLock(c))
    /\ \A f \in Callers :
          /\ WF_vars(SnapCopyHistory(f) \/ ResetClear(f))
          /\ SF_vars(SnapCopyData(f))

SpecLock == Init /\ [][NextLock]_vars /\ LockFair

(***************************************************************************)
(* The normalization plane: one client, its network thread handling one    *)
(* JSON object after another (no dashboard), the connection possibly lost, *)
(* and time passing between messages.                                      *)
(***************************************************************************)
\* the latest time of a run
MaxTime == 5

\* {"humidity":null,"humidite":55,"seuilPot":null,"seuil":30.9}
ObjNullAlias == [humidity |-> Null, humidite |-> IntV(55),
                 seuilPot |-> Null, seuil |-> FloatV(309)]
\* {"humidity":41,"humidite":55,"seuilPot":25,"seuil":30.9,"tempSeuil":30}
ObjAllAliases == [humidity |-> IntV(41), humidite |-> IntV(55), seuilPot |-> IntV(25),
                  seuil |-> FloatV(309), tempSeuil |-> IntV(30)]
\* {"temperature":"abc","humidity":[1],"flame":"1.5","pot":"x","alarm":"x","tempSeuil":30}
ObjUnparseable == [temperature |-> StrV(<<"a", "b", "c">>), humidity |-> ListV(1),
                   flame |-> StrV(<<"1", ".", "5">>), pot |-> StrV(<<"x">>),
                   alarm |-> StrV(<<"x">>), tempSeuil |-> IntV(30)]
\* {"temperature":0,"alarm":false}
ObjZero == [temperature |-> IntV(0), alarm |-> BoolV(FALSE)]
\* {}
ObjEmpty == [k \in {} |-> Null]

NormMessages == {ObjectMsg(ObjA), ObjectMsg(ObjB), ObjectMsg(ObjNullAlias),
                 ObjectMsg(ObjAllAliases), ObjectMsg(ObjUnparseable),
                 ObjectMsg(ObjZero), ObjectMsg(ObjEmpty)}

\* a second passes with no message in on_message: the next datetime.now()
\* (line 122) is later.  (A run of on_message takes less than the second.)
Tick ==
    /\ \A c \in Clients : nt_pc[c] = "idle"
    /\ clock < MaxTime
    /\ clock' = clock + 1
    /\ stamps' = Append(stamps, NoMsg.obj)
    /\ UNCHANGED <<last_data, data_history, lock, csv, nt_pc, nt_msg, nt_now,
                   fg_d, fg_hist, delivered, drops, applied, reset_mark>>
    /\ UNCHANGED <<conn_vars, loop, fg_pc>>

(***************************************************************************)
(* The connection plane.  start_mqtt_once, lines 188-219, run by a         *)
(* foreground caller f at the start of main.                               *)
(***************************************************************************)
conn_frame == <<store_vars, addr_valid, wire, pub_ret, refused, pubs>>


\* lines 192-193: if mqtt_started: return.  (main then runs build_dashboard,
\* which calls nothing of the connection, and the caller may run main again.)
StartCheck(f) ==
    /\ fg_pc[f] = "idle"
    /\ IF mqtt_started
       THEN /\ fg_ret' = [fg_ret EXCEPT ![f] = "ok"]
            /\ UNCHANGED fg_pc
       ELSE /\ fg_pc' = [fg_pc EXCEPT ![f] = "create"]
            /\ UNCHANGED fg_ret
    /\ UNCHANGED <<mqtt_started, mqtt_client, mqtt_thread, mqtt_connected, sock,
                   subscribed, w_pc, clients_made, workers_made, conn_failed,
                   last_print, loop>>
    /\ UNCHANGED <<conn_frame, lost>>

\* lines 195-198: mqtt_client = mqtt.Client() and its callbacks
StartCreate(f) ==
    /\ fg_pc[f] = "create"
    /\ mqtt_client' = f
    /\ clients_made' = clients_made + 1
    /\ fg_pc' = [fg_pc EXCEPT ![f] = "spawn"]
    /\ UNCHANGED <<mqtt_started, mqtt_thread, mqtt_connected, sock, subscribed,
                   w_pc, fg_ret, workers_made, conn_failed, last_print, loop>>
    /\ UNCHANGED <<conn_frame, lost>>

\* lines 217-218: the worker thread is created and started
StartSpawn(f) ==
    /\ fg_pc[f] = "spawn"
    /\ mqtt_thread' = f
    /\ w_pc' = [w_pc EXCEPT ![f] = "check"]
    /\ workers_made' = workers_made + 1
    /\ fg_pc' = [fg_pc EXCEPT ![f] = "flag"]
    /\ UNCHANGED <<mqtt_started, mqtt_client, mqtt_connected, sock, subscribed,
                   fg_ret, clients_made, conn_failed, last_print, loop>>
    /\ UNCHANGED <<conn_frame, lost>>

\* line 219: mqtt_started = True, and the return to main (nothing is raised)
StartFlag(f) ==
    /\ fg_pc[f] = "flag"
    /\ mqtt_started' = TRUE
    /\ fg_ret' = [fg_ret EXCEPT ![f] = "ok"]
    /\ fg_pc' = [fg_pc EXCEPT ![f] = "idle"]
    /\ UNCHANGED <<mqtt_client, mqtt_thread, mqtt_connected, sock, subscribed,
                   w_pc, clients_made, workers_made, conn_failed, last_print, loop>>
    /\ UNCHANGED <<conn_frame, lost>>

(***************************************************************************)
(* _worker, lines 200-215, on worker thread w.  mqtt_client is the module  *)
(* global, read at every use.                                              *)
(***************************************************************************)
SleepOk == 2
SleepErr == 5

\* line 204: if not mqtt_connected (and the print of line 205)
WorkerCheck(w) ==
    /\ w_pc[w] = "check"
    /\ IF ~mqtt_connected
       THEN /\ w_pc' = [w_pc EXCEPT ![w] = "connect"]
            /\ last_print' = <<"connecting", 0>>
       ELSE /\ w_pc' = [w_pc EXCEPT ![w] = "sleep"]
            /\ UNCHANGED last_print
    /\ UNCHANGED <<mqtt_started, mqtt_client, mqtt_thread, mqtt_connected, sock,
                   subscribed, fg_ret, clients_made, workers_made, conn_failed,
                   loop, fg_pc>>
    /\ UNCHANGED <<conn_frame, lost>>

\* line 206: mqtt_client.connect(...).  It drops the client's current socket
\* and opens a new one: it returns with CONNECT sent, or raises (always, when
\* the address is malformed)
WorkerConnect(w) ==
    /\ w_pc[w] = "connect"
    /\ \E raises \in BOOLEAN :
          /\ ~addr_valid => raises
          /\ IF raises
             THEN /\ sock' = [sock EXCEPT ![mqtt_client] = "closed"]
                  /\ w_pc' = [w_pc EXCEPT ![w] = "except"]
                  /\ conn_failed' = TRUE
             ELSE /\ sock' = [sock EXCEPT ![mqtt_client] = "handshake"]
                  /\ w_pc' = [w_pc EXCEPT ![w] = "loop_start"]
                  /\ UNCHANGED conn_failed
    /\ subscribed' = [subscribed EXCEPT ![mqtt_client] = FALSE]
    /\ UNCHANGED <<mqtt_started, mqtt_client, mqtt_thread, mqtt_connected,
                   fg_ret, clients_made, workers_made, last_print, loop, fg_pc>>
    /\ UNCHANGED <<conn_frame, lost>>

\* line 207: mqtt_client.loop_start() starts the network thread unless the
\* client has one already
WorkerLoopStart(w) ==
    /\ w_pc[w] = "loop_start"
    /\ loop' = [loop EXCEPT ![mqtt_client] = IF @ = "none" THEN "running" ELSE @]
    /\ w_pc' = [w_pc EXCEPT ![w] = "sleep"]
    /\ UNCHANGED <<mqtt_started, mqtt_client, mqtt_thread, mqtt_connected, sock,
                   subscribed, fg_ret, clients_made, workers_made, conn_failed,
                   last_print, fg_pc>>
    /\ UNCHANGED <<conn_frame, lost>>

\* line 208: time.sleep(2), then the next turn of the loop
WorkerSleep(w) ==
    /\ w_pc[w] = "sleep"
    /\ w_pc' = [w_pc EXCEPT ![w] = "check"]
    /\ UNCHANGED <<mqtt_started, mqtt_client, mqtt_thread, mqtt_connected, sock,
                   subscribed, fg_ret, clients_made, workers_made, conn_failed,
                   last_print, loop, fg_pc>>
    /\ UNCHANGED <<conn_frame, lost>>

\* lines 209-214: the error is printed and mqtt_client.loop_stop() ends the
\* client's network thread
WorkerExcept(w) ==
    /\ w_pc[w] = "except"
    /\ last_print' = <<"worker error", 0>>
    /\ loop' = [loop EXCEPT ![mqtt_client] = "none"]
    /\ w_pc' = [w_pc EXCEPT ![w] = "sleep_err"]
    /\ UNCHANGED <<mqtt_started, mqtt_client, mqtt_thread, mqtt_connected, sock,
                   subscribed, fg_ret, clients_made, workers_made, conn_failed,
                   fg_pc>>
    /\ UNCHANGED <<conn_frame, lost>>

\* faulty variant: the worker returns after an error
WorkerGivesUp(w) ==
    /\ w_pc[w] = "sleep_err"
    /\ w_pc' = [w_pc EXCEPT ![w] = "ended"]
    /\ UNCHANGED <<mqtt_started, mqtt_client, mqtt_thread, mqtt_connected, sock,
                   subscribed, fg_ret, clients_made, workers_made, conn_failed,
                   last_print, loop, fg_pc>>
    /\ UNCHANGED <<conn_frame, lost>>

\* line 215: time.sleep(5), then the next turn of the loop
WorkerSleepErr(w) ==
    /\ w_pc[w] = "sleep_err"
    /\ w_pc' = [w_pc EXCEPT ![w] = "check"]
    /\ UNCHANGED <<mqtt_started, mqtt_client, mqtt_thread, mqtt_connected, sock,
                   subscribed, fg_ret, clients_made, workers_made, conn_failed,
                   last_print, loop, fg_pc>>
    /\ UNCHANGED <<conn_frame, lost>>

\* the seconds the worker sleeps before its next turn
SleepSeconds(w) ==
    CASE w_pc[w] = "sleep" -> SleepOk
      [] w_pc[w] = "sleep_err" -> SleepErr
      [] OTHER -> 0

Worker(w) ==
    \/ WorkerCheck(w) \/ WorkerConnect(w) \/ WorkerLoopStart(w)
    \/ WorkerSleep(w) \/ WorkerExcept(w) \/ WorkerSleepErr(w)

(***************************************************************************)
(* on_connect and on_disconnect, lines 96-109, called on the network       *)
(* thread of client c.                                                     *)
(***************************************************************************)
Refused == 5
Lost == 1

\* lines 96-104: the CONNACK of the pending handshake arrives with code rc
OnConnect(c, rc) ==
    /\ loop[c] = "running" /\ nt_pc[c] = "idle"
    /\ sock[c] = "handshake"
    /\ IF rc = 0
       THEN /\ mqtt_connected' = TRUE
            /\ lost' = FALSE
            /\ last_print' = <<"connected", 0>>
            /\ subscribed' = [subscribed EXCEPT ![c] = TRUE]
            /\ sock' = [sock EXCEPT ![c] = "established"]
       ELSE /\ mqtt_connected' = FALSE
            /\ last_print' = <<"connect refused", rc>>
            /\ sock' = [sock EXCEPT ![c] = "closed"]
            /\ UNCHANGED <<subscribed, lost>>
    /\ UNCHANGED <<mqtt_started, mqtt_client, mqtt_thread, w_pc, fg_ret,
                   clients_made, workers_made, conn_failed, loop, fg_pc>>
    /\ UNCHANGED conn_frame

\* lines 106-109: the network thread finds the connection lost
OnDisconnect(c, rc) ==
    /\ loop[c] = "running" /\ nt_pc[c] = "idle"
    /\ sock[c] \in {"handshake", "established"}
    /\ mqtt_connected' = FALSE
    /\ lost' = (lost \/ mqtt_connected)
    /\ last_print' = <<"disconnected", rc>>
    /\ sock' = [sock EXCEPT ![c] = "closed"]
    /\ subscribed' = [subscribed EXCEPT ![c] = FALSE]
    /\ UNCHANGED <<mqtt_started, mqtt_client, mqtt_thread, w_pc, fg_ret,
                   clients_made, workers_made, conn_failed, loop, fg_pc>>
    /\ UNCHANGED conn_frame

\* on_message, lines 111-132, seen from the connection plane: a message that
\* decodes to something other than an object arrives on an established,
\* subscribed session; the AttributeError of line 126 leaves on_message and
\* ends the network thread.  (Any other message changes nothing here.)
OnMessageNonObject(c) ==
    /\ loop[c] = "running" /\ sock[c] = "established" /\ subscribed[c]
    /\ nt_pc[c] = "idle"
    /\ \E m \in Messages : ~DecodeFails(m) /\ GetRaises(m)
    /\ loop' = [loop EXCEPT ![c] = "dead"]
    /\ UNCHANGED <<mqtt_started, mqtt_client, mqtt_thread, mqtt_connected, sock,
                   subscribed, w_pc, fg_ret, clients_made, workers_made,
                   conn_failed, last_print, fg_pc>>
    /\ UNCHANGED <<conn_frame, lost>>

InitConn ==
    /\ InitStore
    /\ mqtt_started = FALSE
    /\ mqtt_client = NoClient
    /\ mqtt_thread = 0
    /\ mqtt_connected = FALSE
    /\ sock = [c \in Clients |-> "closed"]
    /\ loop = [c \in Clients |-> "none"]
    /\ subscribed = [c \in Clients |-> FALSE]
    /\ w_pc = [w \in Callers |-> "none"]
    /\ fg_pc = [f \in Callers |-> "idle"]
    /\ fg_ret = [f \in Callers |-> "none"]
    /\ addr_valid \in BOOLEAN
    /\ clients_made = 0
    /\ workers_made = 0
    /\ conn_failed = FALSE
    /\ last_print = <<"none", 0>>
    /\ lost = FALSE

NextConn ==
    \/ \E f \in Callers : StartCheck(f)
    \/ \E f \in Callers : StartCreate(f)
    \/ \E f \in Callers : StartSpawn(f)
    \/ \E f \in Callers : StartFlag(f)
    \/ \E w \in Callers : Worker(w)
    \/ \E c \in Clients : OnConnect(c, 0)
    \/ \E c \in Clients : OnConnect(c, Refused)
    \/ \E c \in Clients : OnDisconnect(c, Lost)
    \/ \E c \in Clients : OnMessageNonObject(c)

SpecConn == InitConn /\ [][NextConn]_vars

\* the threads are scheduled: a caller inside start_mqtt_once finishes the
\* call, a worker that can step does, a network thread with an event pending
\* handles it
ThreadsRun ==
    /\ \A f \in Callers : WF_vars(StartCreate(f) \/ StartSpawn(f) \/ StartFlag(f))
    /\ \A w \in Callers : WF_vars(Worker(w))
    /\ \A c \in Clients : WF_vars(OnConnect(c, 0) \/ OnConnect(c, Refused)
                                  \/ OnDisconnect(c, Lost))

LiveConn == SpecConn /\ ThreadsRun

(***************************************************************************)
(* The normalization plane: on_message for every object of NormMessages,   *)
(* on_disconnect, and the passing of time.                                 *)
(***************************************************************************)
\* The freshness of a reading d at time now.  dashboard_iot.py computes none
\* (it only shows last_update, lines 428-431); IsFresh and its threshold are
\* written from the bridge's contract.
FreshSeconds == 2
IsFresh(now, d, threshold) ==
    d.last_update # NoTime /\ now - d.last_update <= threshold

InitNorm ==
    /\ InitStore
    /\ InitConnected({1}, {})

NextNorm ==
    \/ \E c \in Clients, m \in NormMessages : Deliver(c, m)
    \/ \E c \in Clients : OnMessageDecode(c)
    \/ \E c \in Clients : OnMessageLock(c)
    \/ \E c \in Clients : OnMessageWrite(c)
    \/ \E c \in Clients : OnMessageTrim(c)
    \/ \E c \in Clients : OnMessageCsv(c)
    \/ \E c \in Clients : OnDisconnect(c, Lost)
    \/ Tick

SpecNorm == InitNorm /\ [][NextNorm]_vars

(***************************************************************************)
(* The command publisher.  dashboard_iot.py sends no command; Publish is   *)
(* written from the bridge's contract: a command is handed to the          *)
(* transport only while the state is Connected, otherwise the call returns *)
(* an error at once and keeps nothing.                                     *)
(***************************************************************************)
\* publish calls in one run
MaxPubs == 2

Commands == {"LED_RED_ON", "LED_RED_OFF"}

\* faulty variant: the command is handed to the transport whatever the state
PublishUnchecked(f, cmd) ==
    /\ fg_pc[f] = "idle" /\ fg_ret[f] = "ok"
    /\ pubs < MaxPubs
    /\ pubs' = pubs + 1
    /\ wire' = Append(wire, <<pubs + 1, cmd>>)
    /\ pub_ret' = [pub_ret EXCEPT ![f] = "ok"]
    /\ UNCHANGED refused
    /\ UNCHANGED <<store_vars, addr_valid, mqtt_started, mqtt_client, mqtt_thread,
                   mqtt_connected, sock, subscribed, w_pc, fg_ret, clients_made,
                   workers_made, conn_failed, last_print, lost, loop, fg_pc>>

Publish(f, cmd) ==
    /\ fg_pc[f] = "idle" /\ fg_ret[f] = "ok"
    /\ pubs < MaxPubs
    /\ pubs' = pubs + 1
    /\ IF mqtt_connected
       THEN /\ wire' = Append(wire, <<pubs + 1, cmd>>)
            /\ pub_ret' = [pub_ret EXCEPT ![f] = "ok"]
            /\ UNCHANGED refused
       ELSE /\ pub_ret' = [pub_ret EXCEPT ![f] = "error"]
            /\ refused' = refused \cup {pubs + 1}
            /\ UNCHANGED wire
    /\ UNCHANGED <<store_vars, addr_valid, mqtt_started, mqtt_client, mqtt_thread,
                   mqtt_connected, sock, subscribed, w_pc, fg_ret, clients_made,
                   workers_made, conn_failed, last_print, lost, loop, fg_pc>>

\* the connection plane of a single caller (one client, one worker), with
\* the publisher
InitPub ==
    /\ InitStore
    /\ mqtt_started = FALSE
    /\ mqtt_client = NoClient
    /\ mqtt_thread = 0
    /\ mqtt_connected = FALSE
    /\ sock = [c \in Clients |-> "closed"]
    /\ loop = [c \in Clients |-> "none"]
    /\ subscribed = [c \in Clients |-> FALSE]
    /\ w_pc = [w \in Callers |-> "none"]
    /\ fg_pc = [f \in Callers |-> IF f = 1 THEN "idle" ELSE "off"]
    /\ fg_ret = [f \in Callers |-> "none"]
    /\ addr_valid = TRUE
    /\ clients_made = 0
    /\ workers_made = 0
    /\ conn_failed = FALSE
    /\ last_print = <<"none", 0>>
    /\ lost = FALSE

NextPub ==
    \/ NextConn
    \/ \E f \in Callers, cmd \in Commands : Publish(f, cmd)

SpecPub == InitPub /\ [][NextPub]_vars

(***************************************************************************)
(* Claims on the connection plane.                                         *)
(***************************************************************************)
\* the broker accepts: from some point on no connect call raises, no
\* connection is refused and none is lost (none of these is printed any more)
BrokerAccepts == <>[](last_print[1] \in {"connecting", "connected"})

\* C6 (the claim as stated): once on_disconnect has ended a Connected state,
\* the state becomes Connected again with no foreground call, provided the
\* broker accepts.
C6_ReconnectsAfterDisconnect ==
    BrokerAccepts => ((lost /\ ~mqtt_connected) ~> mqtt_connected)

C8_StartOnce == clients_made <= 1 /\ workers_made <= 1

\* C9 (the claim as stated): the state follows the connect outcome
C9_StateFollowsOutcome ==
    [][/\ \A c \in Clients :
             (sock[c] = "handshake" /\ sock'[c] = "established") =>
                 (mqtt_connected' /\ last_print' = <<"connected", 0>>)
       /\ \A c \in Clients :
             (sock[c] = "handshake" /\ last_print'[1] = "connect refused"
                  /\ last_print' # last_print) =>
                 (~mqtt_connected' /\ last_print'[2] # 0)
       /\ (last_print'[1] = "disconnected" /\ sock' # sock) => ~mqtt_connected'
       /\ \A w \in Callers :
             (w_pc[w] = "connect" /\ w_pc'[w] = "except") => ~mqtt_connected'
      ]_vars

\* C10 (the claim as stated): with a malformed broker address start_mqtt_once
\* reports an error to its caller and no connect is made again after a failure
C10_ConfigErrorFatal ==
    ~addr_valid =>
        /\ \A f \in Callers : fg_ret[f] # "ok"
        /\ \A w \in Callers : ~(conn_failed /\ w_pc[w] = "connect")


(***************************************************************************)
(* Claims on the store plane.                                              *)
(***************************************************************************)
\* a caller holds a copy of last_data from line 279 on
HasSnapshotData(f) == fg_pc[f] \in {"copy_h", "render"}
\* a caller holds both copies once the with block of lines 278-280 is left
HasSnapshot(f) == fg_pc[f] = "render"

\* C1: every copy of last_data taken by a foreground snapshot is either the
\* initial all-None record or, field for field, what one single received
\* message (the one stamped with the copy's last_update) normalizes to.
C1_SnapshotFromOneMessage ==
    \A f \in Callers :
        HasSnapshotData(f) =>
            LET d == fg_d[f] IN
            IF d.last_update = NoTime
            THEN d = EmptyData
            ELSE /\ d.last_update \in 1..Len(stamps)
                 /\ d = Normalize(stamps[d.last_update], d.last_update)

\* C1 witness: a snapshot holding the second message's reading while a network
\* thread is inside the locked block of on_message for a later message
C1_Witness ==
    \E f \in Callers, c \in Clients :
        /\ HasSnapshot(f)
        /\ fg_d[f].last_update = 2
        /\ nt_pc[c] = "write"
        /\ nt_now[c] > 2

\* C2: in every snapshot with a non-empty history copy, the last history point
\* agrees with the copied latest reading on time, temperature, humidity, flame
\* and pot.
C2_SnapshotTailAgrees ==
    \A f \in Callers :
        (HasSnapshot(f) /\ fg_hist[f] # <<>>) =>
            LET d == fg_d[f]
                e == fg_hist[f][Len(fg_hist[f])]
            IN /\ e.time = d.last_update
               /\ e.temperature = d.temperature
               /\ e.humidity = d.humidity
               /\ e.flame = d.flame
               /\ e.pot = d.pot

\* C2 witness: a snapshot with a non-empty history taken after a reset, while a
\* network thread is inside the locked block of on_message
C2_Witness ==
    \E f \in Callers, c \in Clients :
        /\ HasSnapshot(f)
        /\ fg_hist[f] # <<>>
        /\ reset_mark > 0
        /\ nt_pc[c] \in {"write", "trim"}

\* the points appended since the last reset, in order
SinceReset == SubSeq(applied, reset_mark + 1, Len(applied))

\* C3: the history copied by a snapshot has at most HistoryCap points and is
\* the last min(k, HistoryCap) points appended since the last reset, in
\* arrival order (stated on the step that copies it, line 280).
C3_HistoryIsLastN ==
    [][\A f \in Callers :
          (fg_pc[f] = "copy_h" /\ fg_pc'[f] = "render") =>
              /\ Len(fg_hist'[f]) <= HistoryCap
              /\ fg_hist'[f] = LET sr == SinceReset IN
                               IF Len(sr) > HistoryCap
                               THEN SubSeq(sr, Len(sr) - HistoryCap + 1, Len(sr))
                               ELSE sr]_vars

\* C3 witness: a snapshot of a full history after HistoryCap + 1 points were
\* appended: the oldest is gone
C3_Witness ==
    \E f \in Callers :
        /\ HasSnapshot(f)
        /\ Len(fg_hist[f]) = HistoryCap
        /\ Len(SinceReset) = HistoryCap + 1
        /\ fg_hist[f][1] = SinceReset[2]
        /\ fg_hist[f][HistoryCap] = SinceReset[HistoryCap + 1]

\* C4 (the claim as stated): no exception ever leaves on_message, so no
\* network thread is ended by a message
C4_OnMessageNeverRaises == \A c \in Clients : loop[c] # "dead"

\* C5: the step of on_message that handles an undecodable payload returns at
\* once and leaves last_data, data_history and the CSV file as they were.
C5_DropLeavesStore ==
    [][\A c \in Clients :
          (nt_pc[c] = "decode" /\ nt_msg[c].kind = "garbage" /\ nt_pc'[c] # "decode") =>
              /\ nt_pc'[c] = "idle"
              /\ loop'[c] = loop[c]
              /\ last_data' = last_data
              /\ data_history' = data_history
              /\ csv' = csv]_vars

\* C5 witness: a message was dropped, and another undecodable one is in
\* on_message while the store and the CSV file hold a reading
C5_Witness ==
    /\ drops > 0
    /\ last_data.last_update # NoTime
    /\ data_history # <<>>
    /\ csv # <<>>
    /\ \E c \in Clients : nt_pc[c] = "decode" /\ nt_msg[c].kind = "garbage"

\* C11: the history reset empties data_history and changes no field of
\* last_data, whatever on_message is doing; and whenever LOCK is free,
\* data_history holds the last points appended since the reset, in order.
C11_ClearKeepsLatest ==
    [][/\ \A f \in Callers :
             (fg_pc[f] = "clear" /\ fg_pc'[f] = "idle") =>
                 (data_history' = <<>> /\ last_data' = last_data)
       /\ (lock' = Free /\ reset_mark' > 0) =>
             LET sr == SubSeq(applied', reset_mark' + 1, Len(applied')) IN
             data_history' = IF Len(sr) > HistoryCap
                             THEN SubSeq(sr, Len(sr) - HistoryCap + 1, Len(sr))
                             ELSE sr]_vars

\* C11 witness: a reset happened while last_data held a reading, and
\* on_message has appended one point to the emptied history since
C11_Witness ==
    /\ reset_mark > 0
    /\ Len(applied) = reset_mark + 1
    /\ data_history = <<applied[Len(applied)]>>
    /\ last_data.last_update = data_history[1].time
    /\ \E c \in Clients : nt_pc[c] = "trim"

(***************************************************************************)
(* Claims on the normalization plane.                                      *)
(***************************************************************************)
\* last_data holds a whole reading: one was applied and no on_message is
\* inside its with LOCK block
Applied == lock = Free /\ last_data.last_update # NoTime
\* the object last_data was written from
LatestObject == stamps[last_data.last_update]

\* the keys each field of last_data is read from, in the order they are probed
Aliases ==
    [temperature |-> <<"temperature">>,
     humidity    |-> <<"humidity", "humidite">>,
     tempSeuil   |-> <<"tempSeuil">>,
     humSeuil    |-> <<"humSeuil">>,
     flame       |-> <<"flame">>,
     flameRaw    |-> <<"flameRaw">>,
     pot         |-> <<"pot">>,
     seuilPot    |-> <<"seuilPot", "seuil", "tempSeuil">>,
     alarm       |-> <<"alarm">>,
     alarmTemp   |-> <<"alarmTemp">>,
     alarmFlame  |-> <<"alarmFlame">>,
     alarmLocal  |-> <<"alarmLocal">>,
     muted       |-> <<"muted">>,
     motorForced |-> <<"motorForced">>,
     motorSpeed  |-> <<"motorSpeed">>]

\* the value of the first key of keys that p carries with a non-null value
RECURSIVE FirstNonNull(_, _)
FirstNonNull(p, keys) ==
    IF keys = <<>> THEN Null
    ELSE IF Head(keys) \in DOMAIN p /\ p[Head(keys)] # Null THEN p[Head(keys)]
    ELSE FirstNonNull(p, Tail(keys))

\* C12 (the claim as stated): temperature, humidity, the threshold (seuilPot)
\* and flame hold the converted value of the first alias the payload carries
\* with a non-null value, and null when it carries none.
C12_FirstNonNullAlias ==
    Applied =>
        /\ last_data.temperature = _to_float(FirstNonNull(LatestObject, Aliases.temperature))
        /\ last_data.humidity = _to_float(FirstNonNull(LatestObject, Aliases.humidity))
        /\ last_data.seuilPot = _to_float(FirstNonNull(LatestObject, Aliases.seuilPot))
        /\ last_data.flame = _to_int(FirstNonNull(LatestObject, Aliases.flame))

\* C13: after any sequence of applied objects, a field of last_data none of
\* whose source keys is in the latest applied object is None, whatever the
\* earlier objects carried; and no object ends the network thread.
C13_AbsentIsNull ==
    /\ \A c \in Clients : loop[c] # "dead"
    /\ Applied =>
          \A f \in DOMAIN Aliases :
              (\A i \in 1..Len(Aliases[f]) : Aliases[f][i] \notin DOMAIN LatestObject)
                  => last_data[f] = Null

\* C13 witness: the latest applied object has no temperature key, the one
\* applied before it had a temperature
C13_Witness ==
    /\ Applied
    /\ Len(applied) >= 2
    /\ applied[Len(applied) - 1].temperature # Null
    /\ applied[Len(applied)].time = last_data.last_update
    /\ "temperature" \notin DOMAIN LatestObject

\* the value on_message converts for field f of object p, lines 126-149
Resolved(p, f) ==
    CASE f = "humidity" -> GetDefault(p, "humidity", Get(p, "humidite"))
      [] f = "seuilPot" -> GetDefault(p, "seuilPot", GetDefault(p, "seuil", Get(p, "tempSeuil")))
      [] OTHER -> Get(p, f)

FloatFields == {"temperature", "humidity", "tempSeuil", "humSeuil", "seuilPot"}
IntFields == {"flame", "flameRaw", "pot"}
BoolFields == {"alarm", "alarmTemp", "alarmFlame"}

\* the JSON values that read as a float, an int, a boolean
ParsesAsFloat(x) == x.t \in {"int", "float", "bool"} \/ (x.t = "str" /\ IsFloatLit(x.s))
ParsesAsInt(x) == x.t \in {"int", "float", "bool"} \/ (x.t = "str" /\ IsIntLit(x.s))
ParsesAsBool(x) ==
    \/ x.t \in {"bool", "int", "float"}
    \/ x.t = "str" /\ x.s \in {<<"t", "r", "u", "e">>, <<"f", "a", "l", "s", "e">>,
                               <<"0">>, <<"1">>}

\* C14 (the claim as stated): a field whose resolved value is not null and
\* does not parse to the field's type (float, int or bool) is stored as None;
\* the message does not end the network thread and is applied to last_data
\* and to the history.
C14_UnparseableIsNull ==
    /\ \A c \in Clients : loop[c] # "dead"
    /\ Applied =>
          /\ \A f \in FloatFields :
                ~ParsesAsFloat(Resolved(LatestObject, f)) => last_data[f] = Null
          /\ \A f \in IntFields :
                ~ParsesAsInt(Resolved(LatestObject, f)) => last_data[f] = Null
          /\ \A f \in BoolFields :
                ~ParsesAsBool(Resolved(LatestObject, f)) => last_data[f] = Null
          /\ applied # <<>> /\ applied[Len(applied)].time = last_data.last_update

\* C15: a Publish made while the state is not Connected returns an error in
\* that one step, hands nothing to the transport, and its command is never
\* handed to the transport later, whatever the connection does afterwards.
C15_PublishFailsFast ==
    [][/\ (pubs' = pubs + 1 /\ ~mqtt_connected) =>
             /\ \E f \in Callers : pub_ret'[f] = "error" /\ fg_pc'[f] = fg_pc[f]
             /\ wire' = wire
             /\ (pubs + 1) \in refused'
       /\ \A i \in 1..Len(wire') : wire'[i][1] \notin refused'
      ]_vars

\* C15 witness: a command was refused while not Connected, the state became
\* Connected again and a later command went out
C15_Witness ==
    /\ 1 \in refused
    /\ mqtt_connected
    /\ wire # <<>> /\ wire[1][1] = 2

LockOnlyInMemory ==
    /\ \A c \in Clients : lock = Net(c) <=> nt_pc[c] \in {"write", "trim"}
    /\ \A f \in Callers : lock = Fg(f) <=> fg_pc[f] \in {"copy_h", "clear"}

\* the thread holding LOCK can take its next step, which needs nothing but
\* memory
HolderCanStep ==
    /\ \A c \in Clients :
          lock = Net(c) => ENABLED (OnMessageWrite(c) \/ OnMessageTrim(c))
    /\ \A f \in Callers :
          lock = Fg(f) => ENABLED (SnapCopyHistory(f) \/ ResetClear(f))

\* C17: LOCK is held only over the in-memory updates and copies, never at the
\* CSV write; its holder can always go on to release it; and every snapshot
\* and every on_message that asks for LOCK gets it.
C17_LockDiscipline ==
    /\ [](LockOnlyInMemory /\ HolderCanStep)
    /\ \A f \in Callers : (fg_pc[f] = "idle") ~> (fg_pc[f] = "copy_h")
    /\ \A c \in Clients : (nt_pc[c] = "lock") ~> (nt_pc[c] = "write")

\* C17 witness: a snapshot holds LOCK while one network thread waits for it
\* and the other is writing its CSV row
C17_Witness ==
    \E f \in Callers, c, d \in Clients :
        /\ lock = Fg(f)
        /\ nt_pc[c] = "lock"
        /\ nt_pc[d] = "csv"

\* C18 (the claim as stated): every session that becomes established gets its
\* subscribe, and whenever the state is Connected a subscribe was issued on
\* the current session of the client.
C18_ConnectedIsSubscribed ==
    [][/\ \A c \in Clients :
             (sock[c] = "handshake" /\ sock'[c] = "established") => subscribed'[c]
       /\ mqtt_connected' => subscribed'[mqtt_client']
      ]_vars

\* C19 (the claim as stated): the worker calls connect only while the state
\* is not Connected, and no established session is dropped by that call.
C19_NoConnectWhileConnected ==
    [][\A w \in Callers :
          (w_pc[w] = "connect" /\ w_pc'[w] # "connect") =>
              /\ ~mqtt_connected
              /\ sock[mqtt_client] # "established"
      ]_vars

\* C20 (the claim as stated): the k-th row of the CSV file (after the header)
\* carries the time, temperature, humidity, flame and pot of the k-th point
\* appended to the history.
C20_CsvRowFromSameMessage ==
    /\ Len(csv) <= Len(applied) + 1
    /\ \A i \in 2..Len(csv) : csv[i] = applied[i - 1]

====
